---- MODULE Spec2Model ----
(***************************************************************************)
(* Upload pipeline of the route-optimization frontend:                     *)
(*   - UploadEffects.openDialog$, openCsvDialog$ and loadScenario$         *)
(*     (core/effects/upload.effects.ts),                                   *)
(*   - BaseMainNavComponent.ngOnChanges,                                   *)
(*   - CsvService.filterExperimentalFieldsFromCsv (known through           *)
(*     csv.service.spec.ts only),                                          *)
(*   - NormalizationService.normalizeScenario (known through its callers   *)
(*     only).                                                              *)
(*                                                                         *)
(* JavaScript runs every handler to completion, so one action is one       *)
(* handler.  The actions an effect emits in a turn are held in `emitted`   *)
(* until the store has taken them (Settle); no other event is handled in   *)
(* between.                                                                *)
(***************************************************************************)
EXTENDS Integers, Sequences, FiniteSets, TLC

\* ------------------------------------------------------------------------
\* Bounds of the model
\* ------------------------------------------------------------------------
MaxShipments == 2
MaxVehicles == 1
MaxTime == 1
MaxUploads == 2
MaxCsvLen == 6

\* ------------------------------------------------------------------------
\* Values
\* ------------------------------------------------------------------------
\* Modal enum members used by the effects (Modal.Upload, Modal.CsvUpload);
\* ModalNone stands for any other selected modal.
ModalUpload == "Upload"
ModalCsvUpload == "CsvUpload"
ModalNone == "None"
Modals == {ModalNone, ModalUpload, ModalCsvUpload}

\* UploadType enum members handled by the switch.
UploadTypeScenario == "Scenario"
UploadTypeScenarioSolutionPair == "ScenarioSolutionPair"

\* A JavaScript boolean-ish input: absent, false or true.
Undefined == "undefined"
JsFlags == {Undefined, "false", "true"}
Truthy(v) == v = "true"

\* scenario.injectedSolutionConstraint: absent, present without routes,
\* present with routes.
ConstraintValues == {Undefined, "noRoutes", "routes"}

Solutions == {"solutionA", "solutionB"}
Timezones == {"UTC", "CET"}

SeqsUpTo(S, n) == UNION {[1..k -> S] : k \in 0..n}

\* An uploaded scenario: its shipments and vehicles (each with an optional
\* ignore flag), the optional injected solution constraint, and whether the
\* content is raw JSON or already the application's typed representation.
Scenarios ==
  [shipments : SeqsUpTo([ignore : JsFlags], MaxShipments),
   vehicles : SeqsUpTo([ignore : JsFlags], MaxVehicles),
   injectedSolutionConstraint : ConstraintValues,
   repr : {"json", "typed"}]

\* ------------------------------------------------------------------------
\* NormalizationService.normalizeScenario(scenario, changeTime)
\* Entities get the ids 1..n in input order, keep their ignore flag and are
\* stamped with changeTime; the normalized scenario is the typed
\* representation of the input.
\* ------------------------------------------------------------------------
normalizeEntities(entities, changeTime) ==
  [i \in 1..Len(entities) |->
     [id |-> i, ignore |-> entities[i].ignore, changeTime |-> changeTime]]

normalizeScenario(scenario, changeTime) ==
  [shipments |-> normalizeEntities(scenario.shipments, changeTime),
   vehicles |-> normalizeEntities(scenario.vehicles, changeTime),
   injectedModelConstraint |-> scenario.injectedSolutionConstraint,
   shipmentModel |->
     [numShipments |-> Len(scenario.shipments),
      numVehicles |-> Len(scenario.vehicles)],
   normalizedScenario |-> [scenario EXCEPT !.repr = "typed"]]

\* ------------------------------------------------------------------------
\* Messages of MessageService.warning
\* ------------------------------------------------------------------------
WarnRoutesNoSolution == "injected routes, but no solution"
WarnRoutesAndSolution == "both injected routes and a solution"

\* ------------------------------------------------------------------------
\* Actions (NgRx) emitted by the effects
\* ------------------------------------------------------------------------
closeDialog == [type |-> "closeDialog"]
closeCsvDialog == [type |-> "closeCsvDialog"]
setTimezone(tz) == [type |-> "setTimezone", newTimezone |-> tz]
uploadScenarioSuccess(sc) == [type |-> "uploadScenarioSuccess", scenario |-> sc]
applySolution(elapsed, shipmentIds, vehicleIds) ==
  [type |-> "applySolution", elapsedSolution |-> elapsed,
   requestedShipmentIds |-> shipmentIds, requestedVehicleIds |-> vehicleIds]

VARIABLES
  modal,        \* store: fromUI.selectModal
  openDialogs,  \* MatDialog: ids of the open dialogs, in opening order
  uploadInner,  \* openDialog$: exhaustMap has an active inner subscription
  csvInner,     \* openCsvDialog$: exhaustMap has an active inner subscription
  now,          \* Date.now()
  emitter,      \* the effect whose emission is in `emitted`, or "none"
  dialogResult, \* the value afterClosed() delivered in this turn
  delivered,    \* the action loadScenario$ received in this turn
  emitted,      \* actions emitted by `emitter` in this turn, in order
  warnings,     \* MessageService.warning calls of this turn
  normCalls,    \* NormalizationService.normalizeScenario calls of this turn
  arrivals,     \* number of uploadScenarioSuccess actions received so far
  loadTrace,    \* loadScenario$: <<arrival, type>> of every action emitted
  hasSolution, solving, isSolutionStale, isSolutionIllegal,
  label,        \* BaseMainNavComponent inputs and label
  changes,      \* SimpleChanges of the latest ngOnChanges call (input names)
  csv, allowExperimentalFeatures, experimentalFields,
  filteredCsv,  \* filterExperimentalFieldsFromCsv arguments and result
  csvCalled     \* the filter has been applied

dialogVars == <<modal, openDialogs, uploadInner, csvInner, dialogResult, warnings>>
turnVars == <<emitter, emitted, normCalls>>
loadVars == <<delivered, arrivals, loadTrace>>
navVars ==
  <<hasSolution, solving, isSolutionStale, isSolutionIllegal, label, changes>>
csvVars ==
  <<csv, allowExperimentalFeatures, experimentalFields, filteredCsv, csvCalled>>

vars == <<dialogVars, turnVars, now, loadVars, navVars, csvVars>>

NoResult == [truthy |-> FALSE]
NoAction == [type |-> "none"]

\* ------------------------------------------------------------------------
\* openDialog$ and openCsvDialog$
\* ------------------------------------------------------------------------
getDialogById(dialogs, id) == \E i \in 1..Len(dialogs) : dialogs[i] = id

CountOpen(dialogs, id) == Cardinality({i \in 1..Len(dialogs) : dialogs[i] = id})

RemoveDialog(dialogs, id) == SelectSeq(dialogs, LAMBDA d : d # id)

\* (variant: the selected modal is not looked at)
uploadFilter_anyModal(m, dialogs) == ~getDialogById(dialogs, ModalUpload)

\* filter((modal) => modal === Modal.Upload && !getDialogById(Modal.Upload))
uploadFilter(m, dialogs) == m = ModalUpload /\ ~getDialogById(dialogs, ModalUpload)

\* filter((modal) => modal === Modal.CsvUpload && !getDialogById(Modal.CsvUpload))
csvFilter(m, dialogs) == m = ModalCsvUpload /\ ~getDialogById(dialogs, ModalCsvUpload)

\* (variant: any injected solution constraint counts, with or without routes)
hasInjectedRoutes_anyConstraint(normalizedScenario) ==
  normalizedScenario.injectedSolutionConstraint # Undefined

\* normalizedScenario.injectedSolutionConstraint?.routes
hasInjectedRoutes(normalizedScenario) ==
  normalizedScenario.injectedSolutionConstraint = "routes"

\* (variant: the ignore flag is not looked at)
requestedIds_all(entities) == [i \in 1..Len(entities) |-> entities[i].id]

\* entities.filter((e) => !e.ignore).map((e) => e.id)
requestedIds(entities) ==
  LET kept == SelectSeq(entities, LAMBDA e : ~Truthy(e.ignore))
  IN [i \in 1..Len(kept) |-> kept[i].id]

\* (variant: the solution is applied before the scenario is announced)
pairActions_applyFirst(n, solution, requestTime) ==
  <<applySolution(
      [scenario |-> n.normalizedScenario,
       solution |-> solution,
       elapsedTime |-> 0,
       requestTime |-> requestTime,
       timeOfResponse |-> requestTime],
      requestedIds(n.shipments),
      requestedIds(n.vehicles)),
    uploadScenarioSuccess(n.normalizedScenario)>>

\* The two actions.push calls of the ScenarioSolutionPair case.
pairActions(n, solution, requestTime) ==
  <<uploadScenarioSuccess(n.normalizedScenario),
    applySolution(
      [scenario |-> n.normalizedScenario,
       solution |-> solution,
       elapsedTime |-> 0,
       requestTime |-> requestTime,
       timeOfResponse |-> requestTime],
      requestedIds(n.shipments),
      requestedIds(n.vehicles))>>

\* The mergeMap projection of openDialog$: the actions it returns, the
\* warnings it issues and the normalizations it asks for, for the value the
\* dialog closed with.
openDialogProject(result, dateNow) ==
  IF ~result.truthy
  THEN [actions |-> <<closeDialog>>, warnings |-> <<>>, normCalls |-> <<>>]
  ELSE IF result.uploadType = UploadTypeScenario
  THEN
    LET n == normalizeScenario(result.content, dateNow)
    IN [actions |-> <<closeDialog, uploadScenarioSuccess(n.normalizedScenario)>>,
        warnings |->
          IF hasInjectedRoutes(n.normalizedScenario)
          THEN <<WarnRoutesNoSolution>> ELSE <<>>,
        normCalls |-> <<[scenario |-> result.content, changeTime |-> dateNow]>>]
  ELSE IF result.uploadType = UploadTypeScenarioSolutionPair
  THEN
    LET scenario == result.content.scenario
        solution == result.content.solution
        requestTime == dateNow
        n == normalizeScenario(scenario, requestTime)
    IN [actions |-> <<closeDialog>> \o pairActions(n, solution, requestTime),
        warnings |->
          IF hasInjectedRoutes(n.normalizedScenario)
          THEN <<WarnRoutesAndSolution>> ELSE <<>>,
        normCalls |-> <<[scenario |-> scenario, changeTime |-> requestTime]>>]
  ELSE [actions |-> <<closeDialog>>, warnings |-> <<>>, normCalls |-> <<>>]

\* (variant: a cancelled dialog still announces its closing)
openCsvDialogProject_alwaysClose(result) ==
  IF ~result.truthy
  THEN <<closeCsvDialog>>
  ELSE <<closeCsvDialog,
         setTimezone(result.timezone),
         uploadScenarioSuccess(result.scenario)>>

\* The mergeMap projection of openCsvDialog$.
openCsvDialogProject(result) ==
  IF ~result.truthy
  THEN <<>>
  ELSE <<closeCsvDialog,
         setTimezone(result.timezone),
         uploadScenarioSuccess(result.scenario)>>

\* What UploadDialogComponent can close with: nothing (cancelled), a
\* scenario, or a scenario with its solution.
UploadResults ==
  {NoResult}
  \cup {[truthy |-> TRUE, uploadType |-> UploadTypeScenario, content |-> sc] :
          sc \in Scenarios}
  \cup {[truthy |-> TRUE, uploadType |-> UploadTypeScenarioSolutionPair,
         content |-> [scenario |-> sc, solution |-> sol]] :
          sc \in Scenarios, sol \in Solutions}

\* What CsvUploadDialogComponent can close with.
CsvResults ==
  {NoResult}
  \cup {[truthy |-> TRUE, timezone |-> tz, scenario |-> sc] :
          tz \in Timezones, sc \in Scenarios}

Idle == emitter = "none"

\* The store selects another modal (reducers outside these effects).
SetModal ==
  /\ Idle
  /\ \E m \in Modals \ {modal} : modal' = m
  /\ UNCHANGED <<openDialogs, uploadInner, csvInner, dialogResult, warnings,
                 turnVars, now, loadVars, navVars, csvVars>>

\* The clock advances.
Tick ==
  /\ Idle
  /\ now < MaxTime
  /\ now' = now + 1
  /\ UNCHANGED <<dialogVars, turnVars, loadVars, navVars, csvVars>>

\* UploadActions.openDialog or WelcomePageActions.openUploadDialog arrives:
\* the selected modal is read, the filter applied, and exhaustMap opens the
\* dialog unless its previous inner subscription is still active.
OpenDialog ==
  /\ Idle
  /\ IF uploadFilter(modal, openDialogs) /\ ~uploadInner
     THEN /\ openDialogs' = Append(openDialogs, ModalUpload)
          /\ uploadInner' = TRUE
     ELSE UNCHANGED <<openDialogs, uploadInner>>
  /\ UNCHANGED <<modal, csvInner, dialogResult, warnings, turnVars, now,
                 loadVars, navVars, csvVars>>

\* UploadActions.openCsvDialog arrives.
OpenCsvDialog ==
  /\ Idle
  /\ IF csvFilter(modal, openDialogs) /\ ~csvInner
     THEN /\ openDialogs' = Append(openDialogs, ModalCsvUpload)
          /\ csvInner' = TRUE
     ELSE UNCHANGED <<openDialogs, csvInner>>
  /\ UNCHANGED <<modal, uploadInner, dialogResult, warnings, turnVars, now,
                 loadVars, navVars, csvVars>>

\* The upload dialog closes: afterClosed() emits the result and completes.
CloseUploadDialog ==
  /\ Idle
  /\ getDialogById(openDialogs, ModalUpload)
  /\ \E result \in UploadResults :
       LET out == openDialogProject(result, now)
       IN /\ dialogResult' = result
          /\ emitted' = out.actions
          /\ warnings' = out.warnings
          /\ normCalls' = out.normCalls
  /\ openDialogs' = RemoveDialog(openDialogs, ModalUpload)
  /\ uploadInner' = FALSE
  /\ emitter' = "openDialog$"
  /\ UNCHANGED <<modal, csvInner, now, loadVars, navVars, csvVars>>

\* The CSV upload dialog closes.
CloseCsvDialog ==
  /\ Idle
  /\ getDialogById(openDialogs, ModalCsvUpload)
  /\ \E result \in CsvResults :
       /\ dialogResult' = result
       /\ emitted' = openCsvDialogProject(result)
  /\ openDialogs' = RemoveDialog(openDialogs, ModalCsvUpload)
  /\ csvInner' = FALSE
  /\ emitter' = "openCsvDialog$"
  /\ UNCHANGED <<modal, uploadInner, warnings, normCalls, now, loadVars,
                 navVars, csvVars>>

\* The emitted actions have been dispatched; the turn is over.
Settle ==
  /\ ~Idle
  /\ emitter' = "none"
  /\ dialogResult' = NoResult
  /\ delivered' = NoAction
  /\ emitted' = <<>>
  /\ warnings' = <<>>
  /\ normCalls' = <<>>
  /\ UNCHANGED <<modal, openDialogs, uploadInner, csvInner, now, arrivals,
                 loadTrace, navVars, csvVars>>

\* ------------------------------------------------------------------------
\* loadScenario$
\* ------------------------------------------------------------------------
\* (variant: every entity is selected)
selectedIds_all(entities) == [i \in 1..Len(entities) |-> entities[i].id]

\* Restore selections to anything that isn't ignored:
\* entities.forEach((e) => { if (!e.ignore) selected.push(e.id) })
RECURSIVE selectedIds(_)
selectedIds(entities) ==
  IF entities = <<>>
  THEN <<>>
  ELSE LET e == Head(entities)
       IN (IF ~Truthy(e.ignore) THEN <<e.id>> ELSE <<>>)
          \o selectedIds(Tail(entities))

loadScenario(n, selectedShipments, selectedVehicles, changeTime) ==
  [type |-> "loadScenario",
   shipments |-> n.shipments,
   vehicles |-> n.vehicles,
   selectedShipments |-> selectedShipments,
   selectedVehicles |-> selectedVehicles,
   changeTime |-> changeTime]

setRequestSettings(n) ==
  [type |-> "setRequestSettings",
   injectedModelConstraint |-> n.injectedModelConstraint]

setShipmentModel(shipmentModel) ==
  [type |-> "setShipmentModel", shipmentModel |-> shipmentModel]

\* (variant: the shipment model is set before the request settings)
loadScenarioProject_modelFirst(scenario, changeTime) ==
  LET n == normalizeScenario(scenario, changeTime)
  IN <<loadScenario(n, selectedIds(n.shipments), selectedIds(n.vehicles),
                    changeTime),
       setShipmentModel(n.shipmentModel),
       setRequestSettings(n)>>

\* The concatMap projection of loadScenario$.
loadScenarioProject(scenario, changeTime) ==
  LET n == normalizeScenario(scenario, changeTime)
  IN <<loadScenario(n, selectedIds(n.shipments), selectedIds(n.vehicles),
                    changeTime),
       setRequestSettings(n),
       setShipmentModel(n.shipmentModel)>>

\* An uploadScenarioSuccess action arrives at loadScenario$; the projection
\* is an array, so concatMap emits it whole before it takes the next action.
LoadScenario ==
  /\ Idle
  /\ arrivals < MaxUploads
  /\ \E sc \in Scenarios :
       /\ delivered' = uploadScenarioSuccess(sc)
       /\ emitted' = loadScenarioProject(sc, now)
       /\ normCalls' = <<[scenario |-> sc, changeTime |-> now]>>
  /\ arrivals' = arrivals + 1
  /\ loadTrace' =
       loadTrace \o [i \in 1..Len(emitted') |-> <<arrivals', emitted'[i].type>>]
  /\ emitter' = "loadScenario$"
  /\ UNCHANGED <<dialogVars, now, navVars, csvVars>>

\* ------------------------------------------------------------------------
\* BaseMainNavComponent
\* ------------------------------------------------------------------------
NavInputs ==
  {"hasSolution", "solving", "isSolutionStale", "isSolutionIllegal"}

\* (variant: the label is recomputed only when both inputs changed)
ngOnChanges_both(chg, solvingNow, hasSolutionNow, labelNow) ==
  IF "hasSolution" \in chg /\ "solving" \in chg
  THEN IF Truthy(solvingNow)
       THEN "Cancel"
       ELSE IF Truthy(hasSolutionNow) THEN "Regenerate" ELSE "Generate"
  ELSE labelNow

\* ngOnChanges(changes): the label after the call.
ngOnChanges(chg, solvingNow, hasSolutionNow, labelNow) ==
  IF "hasSolution" \in chg \/ "solving" \in chg
  THEN IF Truthy(solvingNow)
       THEN "Cancel"
       ELSE IF Truthy(hasSolutionNow) THEN "Regenerate" ELSE "Generate"
  ELSE labelNow

\* Change detection sets the inputs that changed, then calls ngOnChanges
\* with exactly those inputs.
NgOnChanges ==
  \E chg \in (SUBSET NavInputs) \ {{}} :
    \E val \in [chg -> JsFlags] :
      LET new(name, old) == IF name \in chg THEN val[name] ELSE old
      IN /\ hasSolution' = new("hasSolution", hasSolution)
         /\ solving' = new("solving", solving)
         /\ isSolutionStale' = new("isSolutionStale", isSolutionStale)
         /\ isSolutionIllegal' = new("isSolutionIllegal", isSolutionIllegal)
         /\ changes' = chg
         /\ label' = ngOnChanges(chg, solving', hasSolution', label)
         /\ UNCHANGED <<dialogVars, turnVars, now, loadVars, csvVars>>

\* ------------------------------------------------------------------------
\* CsvService.filterExperimentalFieldsFromCsv
\* A CSV text is a sequence of characters; "," separates cells and "\n"
\* separates rows (papaparse parse / unparse).
\* ------------------------------------------------------------------------
Comma == ","
Newline == "\n"
CsvChars == {"a", "b", Comma, Newline}
FieldNames == {<<"a">>, <<"b">>}
CsvTexts == SeqsUpTo(CsvChars, MaxCsvLen)

RECURSIVE SplitOn(_, _)
SplitOn(text, sep) ==
  IF text = <<>>
  THEN << <<>> >>
  ELSE LET r == SplitOn(Tail(text), sep)
       IN IF Head(text) = sep
          THEN << <<>> >> \o r
          ELSE << <<Head(text)>> \o Head(r) >> \o Tail(r)

RECURSIVE JoinWith(_, _)
JoinWith(parts, sep) ==
  IF parts = <<>>
  THEN <<>>
  ELSE IF Len(parts) = 1
  THEN Head(parts)
  ELSE Head(parts) \o <<sep>> \o JoinWith(Tail(parts), sep)

\* parse(csv).data: rows of cells
parse(text) ==
  LET lines == SplitOn(text, Newline)
  IN [i \in 1..Len(lines) |-> SplitOn(lines[i], Comma)]

\* unparse(rows)
unparse(rows) ==
  JoinWith([i \in 1..Len(rows) |-> JoinWith(rows[i], Comma)], Newline)

RECURSIVE DropColumns(_, _, _)
DropColumns(row, drop, i) ==
  IF row = <<>>
  THEN <<>>
  ELSE (IF i \in drop THEN <<>> ELSE <<Head(row)>>)
       \o DropColumns(Tail(row), drop, i + 1)

\* (variant: only the first listed column is found)
experimentalColumns_first(header, fields) ==
  LET all == {i \in 1..Len(header) : header[i] \in fields}
  IN {i \in all : \A j \in all : i <= j}

\* The columns whose header is one of the experimental fields.
experimentalColumns(header, fields) ==
  {i \in 1..Len(header) : header[i] \in fields}

\* (variant: the flag is not looked at)
allowsExperimental_never(allow) == FALSE

\* if (allowExperimentalFeatures) return csv
allowsExperimental(allow) == allow

filterExperimentalFieldsFromCsv(text, allow, fields) ==
  IF allowsExperimental(allow)
  THEN text
  ELSE LET rows == parse(text)
           drop == experimentalColumns(rows[1], fields)
       IN unparse([r \in 1..Len(rows) |-> DropColumns(rows[r], drop, 1)])

\* One call of the filter on the arguments chosen initially.
FilterCsv ==
  /\ ~csvCalled
  /\ filteredCsv' =
       filterExperimentalFieldsFromCsv(csv, allowExperimentalFeatures,
                                       experimentalFields)
  /\ csvCalled' = TRUE
  /\ UNCHANGED <<csv, allowExperimentalFeatures, experimentalFields,
                 dialogVars, turnVars, now, loadVars, navVars>>

\* ------------------------------------------------------------------------
\* Specifications
\* ------------------------------------------------------------------------
EffectsInit ==
  /\ modal = ModalNone
  /\ openDialogs = <<>>
  /\ uploadInner = FALSE
  /\ csvInner = FALSE
  /\ now = 0
  /\ emitter = "none"
  /\ dialogResult = NoResult
  /\ delivered = NoAction
  /\ emitted = <<>>
  /\ warnings = <<>>
  /\ normCalls = <<>>
  /\ arrivals = 0
  /\ loadTrace = <<>>

NavInit ==
  /\ hasSolution = Undefined
  /\ solving = Undefined
  /\ isSolutionStale = Undefined
  /\ isSolutionIllegal = Undefined
  /\ label = Undefined
  /\ changes = {}

CsvNotCalled ==
  /\ filteredCsv = <<>>
  /\ csvCalled = FALSE

Init ==
  /\ EffectsInit
  /\ NavInit
  /\ csv = <<>>
  /\ allowExperimentalFeatures = TRUE
  /\ experimentalFields = {}
  /\ CsvNotCalled

InitCsv ==
  /\ EffectsInit
  /\ NavInit
  /\ csv \in CsvTexts
  /\ allowExperimentalFeatures \in BOOLEAN
  /\ experimentalFields \in SUBSET FieldNames
  /\ CsvNotCalled

\* The two dialog effects.
Next ==
  \/ SetModal
  \/ Tick
  \/ OpenDialog
  \/ OpenCsvDialog
  \/ CloseUploadDialog
  \/ CloseCsvDialog
  \/ Settle

Spec == Init /\ [][Next]_vars

\* loadScenario$ on the stream of uploadScenarioSuccess actions.
NextLoad ==
  \/ Tick
  \/ LoadScenario
  \/ Settle

SpecLoad == Init /\ [][NextLoad]_vars

\* BaseMainNavComponent under change detection.
NextNav == NgOnChanges

SpecNav == Init /\ [][NextNav]_vars

\* The CSV filter on every bounded input.
NextCsv == FilterCsv

SpecCsv == InitCsv /\ [][NextCsv]_vars

\* ------------------------------------------------------------------------
\* Properties
\* ------------------------------------------------------------------------
Falsy(v) == v \in {Undefined, "false"}

Types(actions) == [i \in 1..Len(actions) |-> actions[i].type]

Range(f) == {f[i] : i \in DOMAIN f}

\* ids is the list of the ids of the entities whose ignore flag is falsy,
\* each once, in the order of the entities.
IsListOfKeptIds(ids, entities) ==
  /\ \A i \in 1..Len(entities) :
       Falsy(entities[i].ignore) <=> entities[i].id \in Range(ids)
  /\ \A j \in 1..Len(ids) : \E i \in 1..Len(entities) : entities[i].id = ids[j]
  /\ \A j, k \in 1..Len(ids) :
       j < k =>
         \E i1, i2 \in 1..Len(entities) :
           /\ i1 < i2
           /\ entities[i1].id = ids[j]
           /\ entities[i2].id = ids[k]

UploadClosedWith(uploadType) ==
  /\ emitter = "openDialog$"
  /\ dialogResult.truthy
  /\ dialogResult.uploadType = uploadType

\* C1: for every uploadScenarioSuccess handled by loadScenario$, the emitted
\* loadScenario action selects exactly the ids of the normalized shipments,
\* and of the normalized vehicles, whose ignore flag is falsy, in entity
\* order: no ignored id is selected and no other id is missing.
C1_SelectionExcludesIgnored ==
  emitter = "loadScenario$" =>
    LET a == emitted[1]
        n == normalizeScenario(delivered.scenario, a.changeTime)
    IN /\ a.type = "loadScenario"
       /\ IsListOfKeptIds(a.selectedShipments, n.shipments)
       /\ IsListOfKeptIds(a.selectedVehicles, n.vehicles)

\* C1 witness: a scenario whose first shipment and only vehicle are ignored
\* and whose second shipment has no ignore flag has been loaded.
C1_Witness ==
  /\ emitter = "loadScenario$"
  /\ Len(delivered.scenario.shipments) = 2
  /\ delivered.scenario.shipments[1].ignore = "true"
  /\ delivered.scenario.shipments[2].ignore = Undefined
  /\ Len(delivered.scenario.vehicles) = 1
  /\ delivered.scenario.vehicles[1].ignore = "true"
  /\ emitted[1].selectedShipments = <<2>>
  /\ emitted[1].selectedVehicles = <<>>

\* C2: when the upload dialog closes with uploadType Scenario, the "injected
\* routes, but no solution" warning is issued exactly when the normalized
\* scenario has injectedSolutionConstraint.routes; with or without it the
\* effect emits closeDialog then uploadScenarioSuccess with the normalized
\* scenario, normalizes once and does not reopen the dialog.
C2_WarningOnlyInforms ==
  UploadClosedWith(UploadTypeScenario) =>
    LET n == normalizeScenario(dialogResult.content, now).normalizedScenario
    IN /\ (WarnRoutesNoSolution \in Range(warnings)
             <=> n.injectedSolutionConstraint = "routes")
       /\ Len(warnings) <= 1
       /\ WarnRoutesAndSolution \notin Range(warnings)
       /\ emitted = <<closeDialog, uploadScenarioSuccess(n)>>
       /\ Len(normCalls) = 1
       /\ ~getDialogById(openDialogs, ModalUpload)
       /\ ~uploadInner

\* C2 witness: a scenario with injected routes was uploaded and warned about.
C2_Witness ==
  /\ UploadClosedWith(UploadTypeScenario)
  /\ dialogResult.content.injectedSolutionConstraint = "routes"
  /\ warnings = <<WarnRoutesNoSolution>>
  /\ Len(emitted) = 2

\* C3: the upload dialog opens only in a step that starts with the selected
\* modal equal to Modal.Upload and no upload dialog open; at most one upload
\* dialog is ever open; and the step in which the dialog closes opens none
\* (an open action that arrived meanwhile was dropped, not queued).
C3_OpensOnlyWhenSelectedAndClosed ==
  /\ [][CountOpen(openDialogs', ModalUpload) > CountOpen(openDialogs, ModalUpload)
          => /\ modal = ModalUpload
             /\ ~getDialogById(openDialogs, ModalUpload)
             /\ emitter' = "none"]_vars
  /\ [][emitter = "none" /\ emitter' = "openDialog$"
          => ~getDialogById(openDialogs', ModalUpload)]_vars
  /\ [](CountOpen(openDialogs, ModalUpload) <= 1)

\* C3 witness: the upload dialog is open while Modal.Upload is still the
\* selected modal, so that a further open action meets an open dialog.
C3_Witness ==
  /\ CountOpen(openDialogs, ModalUpload) = 1
  /\ uploadInner
  /\ modal = ModalUpload

\* C4: a closure of the upload dialog emits closeDialog exactly once and
\* first; a cancelled dialog emits only closeDialog, a Scenario result
\* closeDialog then uploadScenarioSuccess, a ScenarioSolutionPair result
\* closeDialog, uploadScenarioSuccess, applySolution in that order.
C4_CloseParseDispatchOrder ==
  emitter = "openDialog$" =>
    /\ Len(emitted) >= 1
    /\ emitted[1] = closeDialog
    /\ Cardinality({i \in 1..Len(emitted) : emitted[i].type = "closeDialog"}) = 1
    /\ ~dialogResult.truthy => Types(emitted) = <<"closeDialog">>
    /\ UploadClosedWith(UploadTypeScenario)
         => Types(emitted) = <<"closeDialog", "uploadScenarioSuccess">>
    /\ UploadClosedWith(UploadTypeScenarioSolutionPair)
         => Types(emitted) =
              <<"closeDialog", "uploadScenarioSuccess", "applySolution">>

\* C4 witness: a scenario and solution pair has been uploaded.
C4_Witness ==
  /\ UploadClosedWith(UploadTypeScenarioSolutionPair)
  /\ Len(emitted) = 3

\* C5: with experimental features allowed the filter returns the CSV text
\* unchanged, whatever the text and the listed fields, so every column is
\* still there.
C5_AllowedIsIdentity ==
  csvCalled /\ allowExperimentalFeatures =>
    /\ filteredCsv = csv
    /\ parse(filteredCsv) = parse(csv)

\* C5 witness: the filter ran with experimental features allowed on a CSV
\* with a listed column and a data row.
C5_Witness ==
  /\ csvCalled
  /\ allowExperimentalFeatures
  /\ Len(parse(csv)) >= 2
  /\ \E i \in 1..Len(parse(csv)[1]) : parse(csv)[1][i] \in experimentalFields

\* The number of cells of row that stand in a listed column of header.
ListedCells(row, header, fields) ==
  Cardinality({i \in 1..Len(row) : i <= Len(header) /\ header[i] \in fields})

\* C6: with experimental features not allowed the result has no listed field
\* name as a header, no cell of a listed column, and as many rows as the
\* input; it differs from the input when the input has a listed column.
C6_DisallowedDropsListedColumns ==
  csvCalled /\ ~allowExperimentalFeatures =>
    LET in == parse(csv)
        out == parse(filteredCsv)
    IN /\ \A i \in 1..Len(out[1]) : out[1][i] \notin experimentalFields
       /\ Len(out) = Len(in)
       /\ \A r \in 1..Len(in) :
            LET kept == Len(in[r]) - ListedCells(in[r], in[1], experimentalFields)
            IN Len(out[r]) = IF kept = 0 THEN 1 ELSE kept
       /\ (\E i \in 1..Len(in[1]) : in[1][i] \in experimentalFields)
            => filteredCsv # csv

\* C6 witness: the filter removed a listed column from a CSV that has the
\* same listed header twice, another column, and a data row.
C6_Witness ==
  /\ csvCalled
  /\ ~allowExperimentalFeatures
  /\ Len(parse(csv)) >= 2
  /\ experimentalFields = {<<"a">>}
  /\ parse(csv)[1] = << <<"a">>, <<"a">> >>
  /\ filteredCsv # csv

\* C7: for every uploadScenarioSuccess, loadScenario$ emits loadScenario,
\* setRequestSettings, setShipmentModel in that order, all from one
\* normalization of that action's scenario at one changeTime; over several
\* arrivals the triples follow one another in arrival order, none begun
\* before the previous one is complete.
C7_TriplePerUploadInOrder ==
  /\ Len(loadTrace) = 3 * arrivals
  /\ \A k \in 1..arrivals :
       /\ loadTrace[3 * k - 2] = <<k, "loadScenario">>
       /\ loadTrace[3 * k - 1] = <<k, "setRequestSettings">>
       /\ loadTrace[3 * k] = <<k, "setShipmentModel">>
  /\ emitter = "loadScenario$" =>
       /\ Types(emitted) =
            <<"loadScenario", "setRequestSettings", "setShipmentModel">>
       /\ LET t == emitted[1].changeTime
              n == normalizeScenario(delivered.scenario, t)
          IN /\ normCalls = <<[scenario |-> delivered.scenario, changeTime |-> t]>>
             /\ emitted[1].shipments = n.shipments
             /\ emitted[1].vehicles = n.vehicles
             /\ emitted[2].injectedModelConstraint = n.injectedModelConstraint
             /\ emitted[3].shipmentModel = n.shipmentModel

\* C7 witness: the second uploadScenarioSuccess of a run has just been
\* handled, after the clock advanced.
C7_Witness ==
  /\ emitter = "loadScenario$"
  /\ arrivals = 2
  /\ Len(loadTrace) = 6
  /\ emitted[1].changeTime = 1

\* C8: for a ScenarioSolutionPair upload, applySolution carries the ids of
\* the normalized shipments and vehicles whose ignore flag is falsy, the
\* normalized scenario of the preceding uploadScenarioSuccess, the uploaded
\* solution as it is, elapsedTime 0 and timeOfResponse equal to requestTime,
\* the time the scenario was normalized at.
C8_ApplySolutionPayload ==
  UploadClosedWith(UploadTypeScenarioSolutionPair) =>
    LET a == emitted[3]
        e == a.elapsedSolution
        n == normalizeScenario(dialogResult.content.scenario, e.requestTime)
    IN /\ a.type = "applySolution"
       /\ IsListOfKeptIds(a.requestedShipmentIds, n.shipments)
       /\ IsListOfKeptIds(a.requestedVehicleIds, n.vehicles)
       /\ e.scenario = emitted[2].scenario
       /\ e.scenario = n.normalizedScenario
       /\ e.solution = dialogResult.content.solution
       /\ e.elapsedTime = 0
       /\ e.timeOfResponse = e.requestTime
       /\ e.requestTime = now
       /\ normCalls =
            <<[scenario |-> dialogResult.content.scenario,
               changeTime |-> e.requestTime]>>

\* C8 witness: a pair was uploaded at time 1 whose scenario has an ignored
\* and a not ignored shipment and an ignored vehicle.
C8_Witness ==
  /\ UploadClosedWith(UploadTypeScenarioSolutionPair)
  /\ now = 1
  /\ dialogResult.content.solution = "solutionB"
  /\ dialogResult.content.scenario.repr = "json"
  /\ emitted[3].requestedShipmentIds = <<2>>
  /\ Len(dialogResult.content.scenario.shipments) = 2
  /\ emitted[3].requestedVehicleIds = <<>>
  /\ Len(dialogResult.content.scenario.vehicles) = 1

\* C9: a cancelled CSV dialog dispatches nothing, not even closeCsvDialog; a
\* CSV dialog closed with a result dispatches closeCsvDialog, setTimezone
\* with the result's timezone and uploadScenarioSuccess with its scenario, in
\* that order; the CSV dialog opens only in a step that starts with the
\* selected modal equal to Modal.CsvUpload and no CSV dialog open.
C9_CsvDialogDispatch ==
  /\ [](emitter = "openCsvDialog$" =>
          IF dialogResult.truthy
          THEN emitted =
                 <<closeCsvDialog,
                   setTimezone(dialogResult.timezone),
                   uploadScenarioSuccess(dialogResult.scenario)>>
          ELSE emitted = <<>>)
  /\ [][CountOpen(openDialogs', ModalCsvUpload)
          > CountOpen(openDialogs, ModalCsvUpload)
          => /\ modal = ModalCsvUpload
             /\ ~getDialogById(openDialogs, ModalCsvUpload)]_vars

\* C9 witness: the CSV dialog has been cancelled.
C9_Witness ==
  /\ emitter = "openCsvDialog$"
  /\ ~dialogResult.truthy
  /\ emitted = <<>>

\* The label the current inputs call for.
LabelFor(solvingNow, hasSolutionNow) ==
  IF solvingNow = "true"
  THEN "Cancel"
  ELSE IF hasSolutionNow = "true" THEN "Regenerate" ELSE "Generate"

\* C10: an ngOnChanges call whose changes include hasSolution or solving
\* leaves label at Cancel when solving, else Regenerate when hasSolution,
\* else Generate; a call with neither leaves label as it was; so a label,
\* once set, is the one the current solving and hasSolution call for.
C10_LabelFollowsInputs ==
  /\ [][IF "hasSolution" \in changes' \/ "solving" \in changes'
        THEN label' = LabelFor(solving', hasSolution')
        ELSE label' = label]_navVars
  /\ [](label # Undefined => label = LabelFor(solving, hasSolution))

\* C10 witness: after the label was set to Regenerate, a call that changed
\* neither hasSolution nor solving has been made.
C10_Witness ==
  /\ label = "Regenerate"
  /\ changes # {}
  /\ changes \cap {"hasSolution", "solving"} = {}
  /\ hasSolution = "true"
  /\ solving = Undefined
====
